---- MODULE Spec2Model ----
(***************************************************************************)
(* Retrieval core of the narrative consistency checker:                    *)
(*   src/src2/embedding.py    EmbeddingPipeline.chunk_documents            *)
(*   src/src2/vectorstore.py  FaissVectorStore (add_vectors, save, load,   *)
(*                            search)                                      *)
(*   src/build_and_query.py   build_indices                                *)
(*   src/main4.py             get_evidence_for_row                         *)
(*                                                                         *)
(*                            safe_api_call_with_fallback, load_stores,    *)
(*                            verify_consistency, main                     *)
(*                                                                         *)
(* The specifications share the variables below:                           *)
(*   SpecChunk     calls of chunk_documents on growing document lists      *)
(*   SpecStore     one FaissVectorStore and its directory under            *)
(*                 add_vectors / save / load / search / process crash      *)
(*   SpecEvidence  get_evidence_for_row over a store made by build_indices *)
(*   SpecApi       one call of safe_api_call_with_fallback, step by step   *)
(*   SpecMain      main(): the batch loop over the rows of the input CSV   *)
(***************************************************************************)
EXTENDS Integers, Sequences, FiniteSets, TLC

VARIABLES
    documents,          \* argument of the last chunk_documents call
    processed_chunks,   \* its return value
    index,              \* FaissVectorStore.index (IndexFlatL2 or None)
    metadata,           \* FaissVectorStore.metadata
    faissFile,          \* <persist_dir>/index.faiss
    metaFile,           \* <persist_dir>/metadata.pkl
    tieOrder,           \* how this FAISS build orders equal distances
    encoder,            \* which embedding the loaded SentenceTransformer computes
    row,                \* the request row get_evidence_for_row is called for
    facts,              \* its facts argument at the last call
    evidence,           \* its return value
    lastOp,             \* the last call and how it ended
    hist,               \* history: what the caller passed, which save wrote what
    api,                \* the running safe_api_call_with_fallback call
    storeDirs,          \* STORE_DIR_MC and STORE_DIR_CASTAWAYS on disk
    stores,             \* main's stores dict (load_stores)
    df,                 \* the rows of INPUT_CSV
    main_results,       \* main's results list
    pc                  \* where main() is

vars == <<documents, processed_chunks, index, metadata, faissFile, metaFile,
          tieOrder, encoder, row, facts, evidence, lastOp, hist,
          api, storeDirs, stores, df, main_results, pc>>

\* main() is not running
MainIdle ==
    /\ api = [status |-> "idle"]
    /\ storeDirs = <<>>
    /\ stores = <<>>
    /\ df = <<>>
    /\ main_results = <<>>
    /\ pc = [at |-> "idle"]

MainFrame == UNCHANGED <<api, storeDirs, stores, df, main_results, pc>>

----------------------------------------------------------------------------
(* Bounds of the model *)

MaxDocs == 3        \* documents per chunk_documents call
MaxSplit == 2       \* chunks the splitter cuts one document into (SpecChunk)
MaxBatch == 2       \* chunks handed to one add_vectors call (SpecStore)
MaxVecs == 2        \* vectors, and metadata entries, one store holds (SpecStore)
MaxSaves == 2       \* save calls on one directory (SpecStore)
MaxChunks == 12     \* chunks of the book the evidence store is built from
MaxFacts == 4       \* facts per get_evidence_for_row call (SpecEvidence)
MaxTopK == 3        \* largest top_k searched with (SpecStore)

(* Generic helpers *)

Min(a, b) == IF a < b THEN a ELSE b

Range(s) == {s[i] : i \in 1..Len(s)}

RECURSIVE SumSeq(_)
SumSeq(s) == IF s = <<>> THEN 0 ELSE Head(s) + SumSeq(Tail(s))

Op(name, out) == [op |-> name, out |-> out]

\* list.sort(key=...): a stable sort; keys[i] is the key of items[i].
\* order lists the positions of items[1..i-1] by key, equal keys in their
\* original order; position i goes after every position whose key is <= its own.
RECURSIVE SortedPositions(_, _, _)
SortedPositions(keys, i, order) ==
    IF i > Len(keys) THEN order
    ELSE LET pos == Cardinality({j \in 1..Len(order) : keys[order[j]] <= keys[i]})
         IN SortedPositions(keys, i + 1,
                            SubSeq(order, 1, pos) \o <<i>>
                               \o SubSeq(order, pos + 1, Len(order)))

StableSort(items, keys) ==
    LET order == SortedPositions(keys, 1, <<>>)
    IN [k \in 1..Len(items) |-> items[order[k]]]

SeqsUpTo(S, n) == UNION {[1..k -> S] : k \in 0..n}

DropLast(s) == SubSeq(s, 1, Len(s) - 1)

----------------------------------------------------------------------------
(* Chunking and chunk_id assignment: src/src2/embedding.py                 *)

\* A Document is [source, page_content]. page_content is the text measured in
\* the number of windows the RecursiveCharacterTextSplitter cuts it into; the
\* j-th window's text is j. source = NoSourceKey stands for metadata without
\* a 'source' key.
NoSourceKey == "<no source key>"

\* text_splitter.split_documents: the windows of each document, in document
\* order, each with a copy of its document's metadata.
RECURSIVE split_documents(_)
split_documents(docs) ==
    IF docs = <<>> THEN <<>>
    ELSE [j \in 1..Head(docs).page_content |->
             [page_content |-> j, source |-> Head(docs).source]]
         \o split_documents(Tail(docs))

\* Deviation from the code: one counter for all sources.
CounterKeyGlobal(chunk) == "unknown"

\* source = chunk.metadata.get('source', 'unknown')
CounterKey(chunk) ==
    IF chunk.source = NoSourceKey THEN "unknown" ELSE chunk.source

\* The loop over raw_chunks: chunk_counters maps a source to its next id.
RECURSIVE AssignChunkIds(_, _, _)
AssignChunkIds(raw_chunks, chunk_counters, processed) ==
    IF raw_chunks = <<>> THEN processed
    ELSE LET chunk == Head(raw_chunks)
             source == CounterKey(chunk)
             counters0 == IF source \in DOMAIN chunk_counters
                          THEN chunk_counters
                          ELSE chunk_counters @@ (source :> 0)
             tagged == [page_content |-> chunk.page_content,
                        source |-> chunk.source,
                        chunk_id |-> counters0[source]]
         IN AssignChunkIds(Tail(raw_chunks),
                           [counters0 EXCEPT ![source] = @ + 1],
                           Append(processed, tagged))

EmptyCounters == [s \in {} |-> 0]

chunk_documents(docs) ==
    IF docs = <<>> THEN <<>>
    ELSE AssignChunkIds(split_documents(docs), EmptyCounters, <<>>)

----------------------------------------------------------------------------
(* The encoder: SentenceTransformer.encode, an external model.  A text is  *)
(* a natural number; an encoder is one deterministic map from texts to     *)
(* vectors of its own fixed dimension.  "line" and "pairs" have dimension  *)
(* 1 ("pairs" maps two neighbouring texts to one point, so equal distances *)
(* occur), "plane" has dimension 2.                                        *)

Encoders == {"line", "pairs", "plane"}

Dim(enc) == IF enc = "plane" THEN 2 ELSE 1

Encode(enc, text) ==
    CASE enc = "line"  -> <<text>>
      [] enc = "pairs" -> <<2 * ((text + 1) \div 2)>>
      [] enc = "plane" -> <<text, text % 2>>

RECURSIVE Flatten(_)
Flatten(rows) == IF rows = <<>> THEN <<>> ELSE Head(rows) \o Flatten(Tail(rows))

\* A numpy array is [shape, data], data in row-major order.
\* embed_chunks: np.array([]) for no chunks, else model.encode(texts).
embed_chunks(enc, chunks) ==
    IF chunks = <<>> THEN [shape |-> <<0>>, data |-> <<>>]
    ELSE [shape |-> <<Len(chunks), Dim(enc)>>,
          data |-> Flatten([i \in 1..Len(chunks) |->
                               Encode(enc, chunks[i].page_content)])]

\* model.encode([q]): one row
encode_query(enc, q) == [shape |-> <<1, Dim(enc)>>, data |-> Encode(enc, q)]

----------------------------------------------------------------------------
(* FaissVectorStore: src/src2/vectorstore.py                               *)

\* self.index: None, or a faiss.IndexFlatL2 holding d, ntotal and the
\* vectors as one flat float32 array (codes).  The model's components are
\* small integers, which astype('float32') leaves as they are.
NoStore == [built |-> FALSE, d |-> 0, ntotal |-> 0, codes |-> <<>>]

IndexFlatL2(dim) == [built |-> TRUE, d |-> dim, ntotal |-> 0, codes |-> <<>>]

\* the i-th stored vector, i counted from 0 as FAISS labels do
Vector(idx, i) == SubSeq(idx.codes, i * idx.d + 1, (i + 1) * idx.d)

\* index.add(x): the Python wrapper asserts x.shape[1] == index.d first
IndexAdd(idx, x) ==
    [idx EXCEPT !.ntotal = @ + x.shape[1], !.codes = @ \o x.data]

\* Deviation from the code: metadata.extend before index.add.
add_vectors_extend_first(idx, md, vectors, metadatas) ==
    IF vectors.shape[1] = 0
    THEN [index |-> idx, metadata |-> md, out |-> "returned"]
    ELSE LET dim == vectors.shape[2]
             idx1 == IF ~idx.built THEN IndexFlatL2(dim) ELSE idx
         IN IF dim # idx1.d
            THEN [index |-> idx1, metadata |-> md \o metadatas,
                  out |-> "AssertionError"]
            ELSE [index |-> IndexAdd(idx1, vectors),
                  metadata |-> md \o metadatas, out |-> "returned"]

\* add_vectors: the new index, the new metadata list and how the call ended.
add_vectors(idx, md, vectors, metadatas) ==
    IF vectors.shape[1] = 0
    THEN [index |-> idx, metadata |-> md, out |-> "returned"]
    ELSE LET dim == vectors.shape[2]
             idx1 == IF ~idx.built THEN IndexFlatL2(dim) ELSE idx
         IN IF dim # idx1.d
            THEN [index |-> idx1, metadata |-> md, out |-> "AssertionError"]
            ELSE [index |-> IndexAdd(idx1, vectors),
                  metadata |-> md \o metadatas, out |-> "returned"]

\* The two artifacts.  writer (history) is the number of the save call that
\* wrote the file.
NoFile == [exists |-> FALSE]

\* faiss.write_index / faiss.read_index: d, ntotal, then the codes
write_index(idx, n) ==
    [exists |-> TRUE, d |-> idx.d, ntotal |-> idx.ntotal, codes |-> idx.codes,
     writer |-> n]

\* Deviation from the code: dimension and count swapped on reading.
read_index_by_count(file) ==
    [built |-> TRUE, d |-> file.ntotal, ntotal |-> file.d, codes |-> file.codes]

\* faiss.read_index
read_index(file) ==
    [built |-> TRUE, d |-> file.d, ntotal |-> file.ntotal, codes |-> file.codes]

\* pickle.dump / pickle.load of the list of metadata dicts: the stream holds
\* the three items of each dict one after the other.
PickleDict(m) == <<m.text, m.chunk_id, m.source>>

pickle_dump(md, n) ==
    [exists |-> TRUE,
     stream |-> Flatten([i \in 1..Len(md) |-> PickleDict(md[i])]),
     writer |-> n]

pickle_load(file) ==
    [i \in 1..(Len(file.stream) \div 3) |->
        [text |-> file.stream[3 * i - 2],
         chunk_id |-> file.stream[3 * i - 1],
         source |-> file.stream[3 * i]]]

\* Deviation from the code: not found only when both files are absent.
ArtifactMissingBoth(ff, mf) == ~ff.exists /\ ~mf.exists

\* if not os.path.exists(faiss_path) or not os.path.exists(meta_path)
ArtifactMissing(ff, mf) == ~ff.exists \/ ~mf.exists

\* load: the new index, the new metadata list and how the call ended.
\* Reading a file that does not exist raises.
load(idx, md, ff, mf) ==
    IF ArtifactMissing(ff, mf)
    THEN [index |-> idx, metadata |-> md, out |-> "False"]
    ELSE IF ~ff.exists
    THEN [index |-> idx, metadata |-> md, out |-> "RuntimeError"]
    ELSE IF ~mf.exists
    THEN [index |-> read_index(ff), metadata |-> md, out |-> "FileNotFoundError"]
    ELSE [index |-> read_index(ff), metadata |-> pickle_load(mf), out |-> "True"]

\* Squared Euclidean distance (IndexFlatL2)
RECURSIVE SumSquares(_, _, _)
SumSquares(x, y, i) ==
    IF i > Len(x) THEN 0
    ELSE (x[i] - y[i]) * (x[i] - y[i]) + SumSquares(x, y, i + 1)

L2sqr(x, y) == SumSquares(x, y, 1)

\* Deviation from the code: hits ordered by label, whatever their distance.
NearerByLabel(a, b, tie) == IF tie = "low" THEN a.label < b.label ELSE a.label > b.label

\* Whether FAISS reports hit a before hit b (a hit is a label with its
\* distance).  Among equal distances the order is the build's: lower label
\* first ("low") or higher label first ("high").
Nearer(a, b, tie) ==
    \/ a.distance < b.distance
    \/ a.distance = b.distance
       /\ (IF tie = "low" THEN a.label < b.label ELSE a.label > b.label)

\* The k best hits so far with one more hit put in its place
KeepBest(top, hit, k, tie) ==
    LET pos == Cardinality({i \in 1..Len(top) : Nearer(top[i], hit, tie)})
        put == SubSeq(top, 1, pos) \o <<hit>> \o SubSeq(top, pos + 1, Len(top))
    IN SubSeq(put, 1, Min(k, Len(put)))

\* IndexFlatL2 compares the query with every stored vector, labels 0 to
\* ntotal - 1, and keeps the k nearest.
RECURSIVE ScanIndex(_, _, _, _, _, _)
ScanIndex(idx, q, k, tie, label, top) ==
    IF label = idx.ntotal THEN top
    ELSE ScanIndex(idx, q, k, tie, label + 1,
                   KeepBest(top, [label |-> label,
                                  distance |-> L2sqr(Vector(idx, label), q)],
                            k, tie))

\* index.search(x, k) for one query row: k (label, distance) pairs, nearest
\* first, padded with label -1 when the index holds fewer than k vectors.
FaissSearch(idx, q, k, tie) ==
    LET top == ScanIndex(idx, q, k, tie, 0, <<>>)
    IN top \o [i \in 1..(k - Len(top)) |-> [label |-> -1, distance |-> -1]]

\* The result loop of search: skip label -1, look the label up in metadata.
RECURSIVE SearchResults(_, _)
SearchResults(md, found) ==
    IF found = <<>> THEN [out |-> "returned", results |-> <<>>]
    ELSE LET hit == Head(found)
             rest == SearchResults(md, Tail(found))
         IN IF hit.label = -1 THEN rest
            ELSE IF hit.label + 1 > Len(md)
            THEN [out |-> "IndexError", results |-> <<>>]
            ELSE IF rest.out # "returned" THEN rest
            ELSE [out |-> "returned",
                  results |-> <<[chunk_id |-> md[hit.label + 1].chunk_id,
                                 source |-> md[hit.label + 1].source,
                                 text |-> md[hit.label + 1].text,
                                 distance |-> hit.distance]>> \o rest.results]

\* search(query_vector, top_k)
search(idx, md, tie, query_vector, top_k) ==
    IF ~idx.built \/ idx.ntotal = 0
    THEN [out |-> "returned", results |-> <<>>]
    ELSE IF query_vector.shape[2] # idx.d \/ top_k <= 0
    THEN [out |-> "AssertionError", results |-> <<>>]
    ELSE SearchResults(md, FaissSearch(idx, query_vector.data, top_k, tie))

----------------------------------------------------------------------------
(* Evidence retrieval and aggregation: src/main4.py                        *)

\* clean_text: "" for a missing (NaN) cell.  Like every text of the model a
\* cell is a number, NaN is the missing cell and 0 the empty string.
NaN == -1
NoRow == [char |-> NaN, caption |-> NaN]

clean_text(text) == IF text = NaN THEN 0 ELSE text

\* q = f"{char_name} ({caption}): {fact}"
format_query(r, fact) == clean_text(r.char) + clean_text(r.caption) + fact

TopK == 3
EvidenceCap == 10

\* for r in results: if cid not in collected_chunks: collected_chunks[cid] = r
\* collected_chunks is a dict in insertion order: a sequence without two
\* items of one chunk_id.
HasKey(collected, cid) == \E i \in 1..Len(collected) : collected[i].chunk_id = cid

\* Deviation from the code: a chunk_id seen again takes the later record.
RECURSIVE CollectLastSeen(_, _)
CollectLastSeen(collected, results) ==
    IF results = <<>> THEN collected
    ELSE LET r == Head(results)
         IN CollectLastSeen(
               IF HasKey(collected, r.chunk_id)
               THEN [i \in 1..Len(collected) |->
                        IF collected[i].chunk_id = r.chunk_id THEN r
                        ELSE collected[i]]
               ELSE Append(collected, r),
               Tail(results))

RECURSIVE Collect(_, _)
Collect(collected, results) ==
    IF results = <<>> THEN collected
    ELSE LET r == Head(results)
         IN Collect(IF HasKey(collected, r.chunk_id) THEN collected
                    ELSE Append(collected, r),
                    Tail(results))

\* the loop over facts
RECURSIVE SearchFacts(_, _, _, _, _, _, _)
SearchFacts(r, idx, md, tie, enc, fs, collected) ==
    IF fs = <<>> THEN [out |-> "returned", collected |-> collected]
    ELSE LET q == format_query(r, Head(fs))
             vec == encode_query(enc, q)
             found == search(idx, md, tie, vec, TopK)
         IN IF found.out # "returned"
            THEN [out |-> found.out, collected |-> collected]
            ELSE SearchFacts(r, idx, md, tie, enc, Tail(fs),
                             Collect(collected, found.results))

\* Deviation from the code: a sort left out.
KeepOrder(chunks) == chunks

\* all_chunks.sort(key=lambda x: x['distance'])
SortByDistance(chunks) ==
    StableSort(chunks, [i \in 1..Len(chunks) |-> chunks[i].distance])

\* Deviation from the code: the last ten items kept.
KeepLast(chunks) ==
    SubSeq(chunks, Len(chunks) - Min(EvidenceCap, Len(chunks)) + 1, Len(chunks))

\* top_chunks = all_chunks[:10]
KeepFirst(chunks) == SubSeq(chunks, 1, Min(EvidenceCap, Len(chunks)))

\* top_chunks.sort(key=lambda x: x['chunk_id'])
SortByChunkId(chunks) ==
    StableSort(chunks, [i \in 1..Len(chunks) |-> chunks[i].chunk_id])

get_evidence_for_row(r, idx, md, tie, enc, fs) ==
    LET searched == SearchFacts(r, idx, md, tie, enc, fs, <<>>)
    IN IF searched.out # "returned"
       THEN [out |-> searched.out, evidence |-> <<>>]
       ELSE [out |-> "returned",
             evidence |-> SortByChunkId(KeepFirst(SortByDistance(searched.collected)))]

----------------------------------------------------------------------------
(* build_indices (src/build_and_query.py), the book of Monte Cristo, and   *)
(* load_stores (src/main4.py)                                              *)

FILE_MC == "The Count of Monte Cristo.txt"
FILE_CASTAWAYS == "In search of the castaways.txt"
NOTES_MC == "Notes on The Count of Monte Cristo.txt"

\* FILE_MC in d.metadata.get('source', ''): substring test
SourceContains(needle, source) ==
    \/ source = needle
    \/ needle = FILE_MC /\ source = NOTES_MC

\* build_indices: the metadata dict stored for a chunk
MetaOf(c) == [text |-> c.page_content, chunk_id |-> c.chunk_id, source |-> c.source]

MetasOf(chunks) == [i \in 1..Len(chunks) |-> MetaOf(chunks[i])]

\* save(): the two artifacts after the call, n the number of this save call
save(idx, md, ff, mf, n) ==
    IF ~idx.built THEN [faissFile |-> ff, metaFile |-> mf]
    ELSE [faissFile |-> write_index(idx, n), metaFile |-> pickle_dump(md, n)]

\* The artifacts build_indices leaves in STORE_DIR_MC, given the documents
\* the loader found in the data directory.
build_indices_mc(enc, all_docs) ==
    LET docs_mc == SelectSeq(all_docs, LAMBDA d : SourceContains(FILE_MC, d.source))
    IN IF docs_mc = <<>> THEN [faissFile |-> NoFile, metaFile |-> NoFile]
       ELSE LET chunks_mc == chunk_documents(docs_mc)
                vectors_mc == embed_chunks(enc, chunks_mc)
                store_mc == add_vectors(NoStore, <<>>, vectors_mc, MetasOf(chunks_mc))
            IN save(store_mc.index, store_mc.metadata, NoFile, NoFile, 1)

----------------------------------------------------------------------------
(* SpecChunk: chunk_documents called on document lists that grow by one    *)
(* document from call to call.                                             *)

SourceNames == {FILE_MC, FILE_CASTAWAYS, "unknown", NoSourceKey}

Documents == [source : SourceNames, page_content : 0..MaxSplit]

NoHist == [saves |-> 0, saved |-> [valid |-> FALSE]]

InitChunk ==
    /\ documents = <<>>
    /\ processed_chunks = <<>>
    /\ index = NoStore
    /\ metadata = <<>>
    /\ faissFile = NoFile
    /\ metaFile = NoFile
    /\ tieOrder = "low"
    /\ encoder = "line"
    /\ row = NoRow
    /\ facts = <<>>
    /\ evidence = <<>>
    /\ lastOp = Op("init", "")
    /\ hist = NoHist
    /\ MainIdle

CallChunkDocumentsEmpty ==
    /\ documents = <<>>
    /\ processed_chunks' = chunk_documents(<<>>)
    /\ lastOp' = Op("chunk_documents", "returned")
    /\ UNCHANGED <<documents, index, metadata, faissFile, metaFile, tieOrder,
                   encoder, row, facts, evidence, hist>>
    /\ MainFrame

CallChunkDocuments ==
    /\ Len(documents) < MaxDocs
    /\ \E doc \in Documents :
          /\ documents' = Append(documents, doc)
          /\ processed_chunks' = chunk_documents(documents')
    /\ lastOp' = Op("chunk_documents", "returned")
    /\ UNCHANGED <<index, metadata, faissFile, metaFile, tieOrder, encoder,
                   row, facts, evidence, hist>>
    /\ MainFrame

NextChunk == CallChunkDocumentsEmpty \/ CallChunkDocuments

SpecChunk == InitChunk /\ [][NextChunk]_vars

----------------------------------------------------------------------------
(* C4 *)

\* The source a document or chunk belongs to: its metadata's 'source', and
\* "unknown" for metadata that has no 'source' key.
SourceOf(x) == IF x.source = NoSourceKey THEN "unknown" ELSE x.source

Keys(docs) == {SourceOf(docs[i]) : i \in 1..Len(docs)}

IsKey(k, x) == SourceOf(x) = k

\* chunk_ids of the chunks of source k, in output order
IdsOf(chunks, k) ==
    LET own == SelectSeq(chunks, LAMBDA c : IsKey(k, c))
    IN [i \in 1..Len(own) |-> own[i].chunk_id]

\* number of chunks the splitter yields for source k
ChunkCount(docs, k) ==
    LET own == SelectSeq(docs, LAMBDA doc : IsKey(k, doc))
    IN SumSeq([i \in 1..Len(own) |-> own[i].page_content])

\* C4: after chunk_documents(documents), for every source the chunk_ids of its
\* chunks, read in output order, are exactly 0, 1, ..., n-1 with n the number
\* of chunks of that source; they are the ids the same source gets when its
\* documents are chunked alone; every chunk is kept with its text and source;
\* and an empty document list gives an empty chunk list.
C4_ChunkIdsPerSource ==
    lastOp.op = "chunk_documents" =>
       /\ \A k \in Keys(documents) :
             /\ IdsOf(processed_chunks, k)
                   = [i \in 1..ChunkCount(documents, k) |-> i - 1]
             /\ IdsOf(processed_chunks, k)
                   = IdsOf(chunk_documents(
                              SelectSeq(documents, LAMBDA doc : IsKey(k, doc))), k)
       /\ Len(processed_chunks)
             = SumSeq([i \in 1..Len(documents) |-> documents[i].page_content])
       /\ \A i \in 1..Len(processed_chunks) :
             processed_chunks[i].chunk_id \in Nat
       /\ (documents = <<>> => processed_chunks = <<>>)

\* Two sources interleaved (A, B, A), each contributing chunks, and the second
\* document of A continuing A's numbering after B's chunks.
C4_Witness ==
    /\ lastOp.op = "chunk_documents"
    /\ Len(documents) = 3
    /\ documents[1].source = documents[3].source
    /\ documents[1].source # documents[2].source
    /\ \A i \in 1..3 : documents[i].page_content = 2
    /\ [i \in 1..Len(processed_chunks) |-> processed_chunks[i].chunk_id]
          = <<0, 1, 0, 1, 2, 3>>

----------------------------------------------------------------------------
(* SpecStore: one FaissVectorStore object and its store directory.  The    *)
(* caller appends batches of chunks the way build_indices does (vectors    *)
(* from embed_chunks, one metadata dict per chunk), with the encoder of    *)
(* dimension 1 or the encoder of dimension 2, or hands add_vectors two     *)
(* arguments of different lengths; it saves, loads, searches, constructs   *)
(* a new store object on the same directory, and the process may die in    *)
(* save() between faiss.write_index and pickle.dump.                       *)

\* the chunks the caller picks its batches from: the two chunks of one document
ChunkPool == Range(chunk_documents(<<[source |-> FILE_MC, page_content |-> 2]>>))

StoreEncoders == {"line", "plane"}

InitStore ==
    /\ documents = <<>>
    /\ processed_chunks = <<>>
    /\ index = NoStore
    /\ metadata = <<>>
    /\ faissFile = NoFile
    /\ metaFile = NoFile
    /\ tieOrder = "low"
    /\ encoder = "line"
    /\ row = NoRow
    /\ facts = <<>>
    /\ evidence = <<>>
    /\ lastOp = Op("__init__", "returned")
    /\ hist = NoHist
    /\ MainIdle

StoreFrame == UNCHANGED <<documents, processed_chunks, tieOrder, encoder, row,
                          facts, evidence, api, storeDirs, stores, df,
                          main_results, pc>>

\* add_vectors(embed_chunks(chunks), metadata of chunks)
AddVectors ==
    \E chunks \in SeqsUpTo(ChunkPool, MaxBatch), enc \in StoreEncoders :
       /\ index.ntotal + Len(chunks) <= MaxVecs
       /\ Len(metadata) + Len(chunks) <= MaxVecs
       /\ LET r == add_vectors(index, metadata, embed_chunks(enc, chunks),
                               MetasOf(chunks))
          IN /\ index' = r.index
             /\ metadata' = r.metadata
             /\ lastOp' = [op |-> "add_vectors", out |-> r.out,
                           vectors |-> Len(chunks), metadatas |-> Len(chunks),
                           dim |-> Dim(enc)]
       /\ UNCHANGED <<faissFile, metaFile, hist>>
       /\ StoreFrame

\* add_vectors with one vector, or one metadata dict, too few
AddVectorsUnequal ==
    \E chunks \in SeqsUpTo(ChunkPool, MaxBatch) \ {<<>>}, enc \in StoreEncoders,
       short \in {"vectors", "metadatas"} :
       LET embedded == IF short = "vectors" THEN DropLast(chunks) ELSE chunks
           described == IF short = "metadatas" THEN DropLast(chunks) ELSE chunks
           r == add_vectors(index, metadata, embed_chunks(enc, embedded),
                            MetasOf(described))
       IN /\ index.ntotal + Len(embedded) <= MaxVecs
          /\ Len(metadata) + Len(described) <= MaxVecs
          /\ index' = r.index
          /\ metadata' = r.metadata
          /\ lastOp' = [op |-> "add_vectors", out |-> r.out,
                        vectors |-> Len(embedded), metadatas |-> Len(described),
                        dim |-> Dim(enc)]
          /\ UNCHANGED <<faissFile, metaFile, hist>>
          /\ StoreFrame

\* save(): both artifacts written
Save ==
    /\ index.built => hist.saves < MaxSaves
    /\ IF ~index.built
       THEN /\ lastOp' = Op("save", "nothing to save")
            /\ UNCHANGED <<faissFile, metaFile, hist>>
       ELSE /\ LET r == save(index, metadata, faissFile, metaFile, hist.saves + 1)
               IN /\ faissFile' = r.faissFile
                  /\ metaFile' = r.metaFile
            /\ hist' = [saves |-> hist.saves + 1,
                        saved |-> [valid |-> TRUE, index |-> index,
                                   metadata |-> metadata]]
            /\ lastOp' = Op("save", "returned")
    /\ UNCHANGED <<index, metadata>>
    /\ StoreFrame

\* save() cut short: the process dies after faiss.write_index and before
\* pickle.dump; the next process starts with a new store object.
SaveCrash ==
    /\ index.built
    /\ hist.saves < MaxSaves
    /\ faissFile' = write_index(index, hist.saves + 1)
    /\ hist' = [hist EXCEPT !.saves = @ + 1]
    /\ index' = NoStore
    /\ metadata' = <<>>
    /\ lastOp' = Op("save", "crashed")
    /\ UNCHANGED metaFile
    /\ StoreFrame

Load ==
    /\ LET r == load(index, metadata, faissFile, metaFile)
       IN /\ index' = r.index
          /\ metadata' = r.metadata
          /\ lastOp' = [op |-> "load", out |-> r.out,
                        fresh |-> (index = NoStore /\ metadata = <<>>)]
    /\ UNCHANGED <<faissFile, metaFile, hist>>
    /\ StoreFrame

\* FaissVectorStore(persist_dir) on the same directory
NewStore ==
    /\ index' = NoStore
    /\ metadata' = <<>>
    /\ lastOp' = Op("__init__", "returned")
    /\ UNCHANGED <<faissFile, metaFile, hist>>
    /\ StoreFrame

QueryTexts == {1, 2, 3}

Search ==
    \E enc \in StoreEncoders, q \in QueryTexts, top_k \in 1..MaxTopK :
       /\ LET r == search(index, metadata, tieOrder, encode_query(enc, q), top_k)
          IN lastOp' = [op |-> "search", out |-> r.out, results |-> r.results,
                        query |-> Encode(enc, q), top_k |-> top_k]
       /\ UNCHANGED <<index, metadata, faissFile, metaFile, hist>>
       /\ StoreFrame

NextStore ==
    \/ AddVectors
    \/ AddVectorsUnequal
    \/ Save
    \/ SaveCrash
    \/ Load
    \/ NewStore

SpecStore == InitStore /\ [][NextStore]_vars

\* The same store with every add_vectors call given as many metadata dicts as
\* vectors, as build_indices gives it.
NextPersist ==
    \/ AddVectors
    \/ Save
    \/ SaveCrash
    \/ Load
    \/ NewStore

SpecPersist == InitStore /\ [][NextPersist]_vars

\* The store in memory, appended to and searched.
NextSearch ==
    \/ AddVectors
    \/ AddVectorsUnequal
    \/ NewStore
    \/ Search

InitSearch ==
    /\ documents = <<>>
    /\ processed_chunks = <<>>
    /\ index = NoStore
    /\ metadata = <<>>
    /\ faissFile = NoFile
    /\ metaFile = NoFile
    /\ tieOrder \in {"low", "high"}
    /\ encoder = "line"
    /\ row = NoRow
    /\ facts = <<>>
    /\ evidence = <<>>
    /\ lastOp = Op("__init__", "returned")
    /\ hist = NoHist
    /\ MainIdle

SpecSearch == InitSearch /\ [][NextSearch]_vars

----------------------------------------------------------------------------
(* C5 *)

\* metadata dict m describes vector v: v is the embedding of m's text
Describes(m, v) == \E enc \in StoreEncoders : Encode(enc, m.text) = v

\* C5: in every reachable state of the store (add_vectors with arguments of
\* equal or different lengths, failing add_vectors calls, save, load) the
\* index holds as many vectors as the metadata list has entries, and entry i
\* of the metadata describes vector i.
C5_VectorsAndMetadataCoIndexed ==
    /\ index.ntotal = Len(metadata)
    /\ \A i \in 1..Len(metadata) :
          i <= index.ntotal /\ Describes(metadata[i], Vector(index, i - 1))

----------------------------------------------------------------------------
(* C6 *)

\* the evidence item search builds for the record at label p
RecordAt(p, q) ==
    [chunk_id |-> metadata[p + 1].chunk_id,
     source |-> metadata[p + 1].source,
     text |-> metadata[p + 1].text,
     distance |-> L2sqr(Vector(index, p), q)]

\* C6: a search with a query of the index's dimension on a store holding n
\* records (n vectors, n metadata entries) returns exactly min(top_k, n)
\* items; they are the records at pairwise different positions, each at a
\* distance >= 0, in ascending order of distance; no record left out is
\* nearer than a returned one; the result is empty when the index is unbuilt
\* or empty; and with top_k >= n every stored record is returned.
C6_SearchReturnsNearest ==
    (/\ lastOp.op = "search"
     /\ index.ntotal = Len(metadata)
     /\ index.built => Len(lastOp.query) = index.d)
    =>
    LET res == lastOp.results
        n == index.ntotal
        q == lastOp.query
    IN /\ lastOp.out = "returned"
       /\ Len(res) = Min(lastOp.top_k, n)
       /\ (~index.built \/ n = 0) => res = <<>>
       /\ \A i \in 1..Len(res) : res[i].distance >= 0
       /\ \A i \in 1..Len(res) : \A j \in 1..Len(res) :
             i < j => res[i].distance <= res[j].distance
       /\ \E f \in [1..Len(res) -> 0..(n - 1)] :
             /\ \A i \in 1..Len(res) : \A j \in 1..Len(res) :
                   i # j => f[i] # f[j]
             /\ \A i \in 1..Len(res) : res[i] = RecordAt(f[i], q)
             /\ \A p \in 0..(n - 1) :
                   (\A i \in 1..Len(res) : f[i] # p) =>
                      \A i \in 1..Len(res) :
                         res[i].distance <= L2sqr(Vector(index, p), q)
             /\ lastOp.top_k >= n =>
                   \A p \in 0..(n - 1) : \E i \in 1..Len(res) : f[i] = p

\* A search with top_k = 1 on two records at different distances: the nearer
\* one is returned and the farther one is left out.
C6_Witness ==
    /\ lastOp.op = "search"
    /\ lastOp.top_k = 1
    /\ index.ntotal = 2
    /\ Len(metadata) = 2
    /\ Len(lastOp.query) = index.d
    /\ Len(lastOp.results) = 1
    /\ L2sqr(Vector(index, 0), lastOp.query) > L2sqr(Vector(index, 1), lastOp.query)
    /\ lastOp.results[1] = RecordAt(1, lastOp.query)

----------------------------------------------------------------------------
(* C7 *)

\* C7: an add_vectors call with at least one vector, on a built index whose
\* dimension differs from the vectors' dimension, ends in an error and leaves
\* the index, the metadata list and both artifacts as they were.
C7_DimensionMismatchLeavesStore ==
    [][(/\ lastOp'.op = "add_vectors"
        /\ index.built
        /\ lastOp'.vectors > 0
        /\ lastOp'.dim # index.d)
       => (/\ lastOp'.out = "AssertionError"
           /\ index' = index
           /\ metadata' = metadata
           /\ faissFile' = faissFile
           /\ metaFile' = metaFile)]_vars

\* A failed append of dimension-1 vectors to a store holding dimension-2
\* vectors, which are still there with their metadata.
C7_Witness ==
    /\ lastOp.op = "add_vectors"
    /\ lastOp.out = "AssertionError"
    /\ lastOp.dim = 1
    /\ lastOp.vectors = 1
    /\ index.d = 2
    /\ index.ntotal = 1
    /\ Len(metadata) = 1

----------------------------------------------------------------------------
(* C8 *)

\* C8: when load() returns True on artifacts that one completed save wrote,
\* the loaded index and metadata list are those the store held at that save:
\* same vector count, same vectors in append order, same metadata list.
C8_SaveLoadRoundTrip ==
    (/\ lastOp.op = "load"
     /\ lastOp.out = "True"
     /\ faissFile.writer = metaFile.writer)
    =>
    /\ hist.saved.valid
    /\ hist.saved.index.ntotal > 0
    /\ index = hist.saved.index
    /\ metadata = hist.saved.metadata

\* A new store object loaded a store that two add_vectors calls built: two
\* different vectors, in append order.
C8_Witness ==
    /\ lastOp.op = "load"
    /\ lastOp.out = "True"
    /\ lastOp.fresh
    /\ faissFile.writer = metaFile.writer
    /\ index.ntotal = 2
    /\ Vector(index, 0) # Vector(index, 1)
    /\ Len(metadata) = 2
    /\ metadata[1] # metadata[2]

----------------------------------------------------------------------------
(* C9 *)

\* C9: whenever load() returns True, the loaded vectors and the loaded
\* metadata list have the same length and both artifacts were written by the
\* same completed save.
C9_LoadOnlyConsistentArtifacts ==
    (lastOp.op = "load" /\ lastOp.out = "True")
    =>
    /\ index.ntotal = Len(metadata)
    /\ faissFile.writer = metaFile.writer

----------------------------------------------------------------------------
(* C10 *)

\* C10: a load() call on a directory lacking the vector artifact, the
\* metadata artifact or both returns False, raises nothing, and leaves the
\* index and the metadata list in memory as they were.
C10_LoadMissingArtifact ==
    [][(/\ lastOp'.op = "load"
        /\ (~faissFile.exists \/ ~metaFile.exists))
       => (/\ lastOp'.out = "False"
           /\ index' = index
           /\ metadata' = metadata)]_vars

\* load() returned False on a directory holding index.faiss but no
\* metadata.pkl (a save died half way), and the store in memory is non-empty.
C10_Witness ==
    /\ lastOp.op = "load"
    /\ lastOp.out = "False"
    /\ faissFile.exists
    /\ ~metaFile.exists
    /\ index.ntotal = 2
    /\ Len(metadata) = 2

----------------------------------------------------------------------------
(* SpecEvidence: main4 after load_stores.  build_indices built the store   *)
(* of Monte Cristo from the data directory (or built nothing), load_stores *)
(* loaded it, and get_evidence_for_row is called for one row with fact     *)
(* lists that grow by one fact from call to call.                          *)

Doc(source, n) == [source |-> source, page_content |-> n]

\* What the loader finds in the data directory: nothing; both books, short;
\* the long book; the long book and a second file whose name contains the
\* book's file name.
DataDirs ==
    {<<>>,
     <<Doc(FILE_MC, 3), Doc(FILE_CASTAWAYS, 2)>>,
     <<Doc(FILE_MC, MaxChunks)>>,
     <<Doc(FILE_MC, MaxChunks - 2), Doc(NOTES_MC, 3)>>}

Rows == {[char |-> NaN, caption |-> 0]}

FactPool == {2, 5, 8, 11}

InitEvidence ==
    \E all_docs \in DataDirs, enc \in {"line", "pairs"} :
       LET built == build_indices_mc(enc, all_docs)
           loaded == load(NoStore, <<>>, built.faissFile, built.metaFile)
       IN /\ documents = all_docs
          /\ processed_chunks = <<>>
          /\ faissFile = built.faissFile
          /\ metaFile = built.metaFile
          /\ index = loaded.index
          /\ metadata = loaded.metadata
          /\ tieOrder \in {"low", "high"}
          /\ encoder = enc
          /\ row \in Rows
          /\ facts = <<>>
          /\ evidence = <<>>
          /\ lastOp = Op("load", loaded.out)
          /\ hist = NoHist
          /\ MainIdle

EvidenceFrame == UNCHANGED <<documents, processed_chunks, index, metadata,
                             faissFile, metaFile, tieOrder, encoder, row, hist,
                             api, storeDirs, stores, df, main_results, pc>>

\* get_evidence_for_row(row, store, [])
GetEvidenceNoFacts ==
    /\ facts = <<>>
    /\ LET r == get_evidence_for_row(row, index, metadata, tieOrder, encoder, <<>>)
       IN /\ evidence' = r.evidence
          /\ lastOp' = Op("get_evidence_for_row", r.out)
    /\ UNCHANGED facts
    /\ EvidenceFrame

\* get_evidence_for_row(row, store, facts + [fact])
GetEvidence ==
    /\ Len(facts) < MaxFacts
    /\ \E fact \in FactPool :
          LET r == get_evidence_for_row(row, index, metadata, tieOrder, encoder,
                                        Append(facts, fact))
          IN /\ facts' = Append(facts, fact)
             /\ evidence' = r.evidence
             /\ lastOp' = Op("get_evidence_for_row", r.out)
    /\ EvidenceFrame

NextEvidence == GetEvidenceNoFacts \/ GetEvidence

SpecEvidence == InitEvidence /\ [][NextEvidence]_vars

----------------------------------------------------------------------------
(* C1 *)

\* C1: the list get_evidence_for_row returns is strictly ascending by
\* chunk_id, so no two of its items share a chunk_id.
C1_EvidenceStrictlyAscending ==
    lastOp.op = "get_evidence_for_row" =>
       \A i \in 1..Len(evidence) : \A j \in 1..Len(evidence) :
          i < j => evidence[i].chunk_id < evidence[j].chunk_id

\* Evidence from a store holding two chunks of one chunk_id (two sources),
\* one of them returned, in an order that is not the order of relevance.
C1_Witness ==
    /\ lastOp.op = "get_evidence_for_row"
    /\ Len(evidence) >= 4
    /\ \E i \in 1..Len(evidence) : \E j \in 1..Len(evidence) :
          i < j /\ evidence[i].distance > evidence[j].distance
    /\ \E i \in 1..Len(metadata) : \E j \in 1..Len(metadata) :
          /\ i # j
          /\ metadata[i].chunk_id = metadata[j].chunk_id
          /\ \E k \in 1..Len(evidence) : evidence[k].chunk_id = metadata[i].chunk_id

----------------------------------------------------------------------------
(* C2 *)

\* the results of the per-fact top-3 searches, one after the other
RECURSIVE AllResults(_)
AllResults(fs) ==
    IF fs = <<>> THEN <<>>
    ELSE search(index, metadata, tieOrder,
                encode_query(encoder, format_query(row, Head(fs))), TopK).results
         \o AllResults(Tail(fs))

\* the item recorded for chunk_id cid: the first result that carries it
FirstRetrieved(all, cid) ==
    all[CHOOSE i \in 1..Len(all) :
           /\ all[i].chunk_id = cid
           /\ \A j \in 1..(i - 1) : all[j].chunk_id # cid]

\* C2: the evidence has exactly min(10, d) items, d the number of distinct
\* chunk_ids the per-fact top-3 searches returned; each item is the one
\* recorded when its chunk_id was first retrieved; and no retained item has
\* a larger recorded distance than a discarded one.
C2_EvidenceCapKeepsNearest ==
    lastOp.op = "get_evidence_for_row" =>
       LET all == AllResults(facts)
           ids == {all[i].chunk_id : i \in 1..Len(all)}
           kept == {evidence[i].chunk_id : i \in 1..Len(evidence)}
       IN /\ Len(evidence) = Min(10, Cardinality(ids))
          /\ kept \subseteq ids
          /\ \A i \in 1..Len(evidence) :
                evidence[i] = FirstRetrieved(all, evidence[i].chunk_id)
          /\ \A c \in kept : \A x \in ids \ kept :
                FirstRetrieved(all, c).distance <= FirstRetrieved(all, x).distance

\* More than 10 distinct chunk_ids were retrieved: 10 items are kept and a
\* discarded one is strictly farther than some retained one.
C2_Witness ==
    /\ lastOp.op = "get_evidence_for_row"
    /\ Len(evidence) = 10
    /\ LET all == AllResults(facts)
           ids == {all[i].chunk_id : i \in 1..Len(all)}
           kept == {evidence[i].chunk_id : i \in 1..Len(evidence)}
       IN /\ Cardinality(ids) > 10
          /\ \E c \in kept : \E x \in ids \ kept :
                FirstRetrieved(all, c).distance < FirstRetrieved(all, x).distance

----------------------------------------------------------------------------
(* C3 *)

\* C3: a call whose fact list is the previous call's list with one of its
\* facts repeated at the end returns the same evidence list, item for item
\* (chunk_id, source, text and distance), as the previous call.
C3_DuplicateFactIdempotent ==
    [][(/\ lastOp.op = "get_evidence_for_row"
        /\ lastOp'.op = "get_evidence_for_row"
        /\ Len(facts') = Len(facts) + 1
        /\ SubSeq(facts', 1, Len(facts)) = facts
        /\ facts'[Len(facts')] \in Range(facts))
       => (evidence' = evidence /\ lastOp'.out = lastOp.out)]_vars

\* The last fact repeats an earlier one, another fact in between retrieved
\* one of its chunks at a different distance, and the evidence is non-empty.
C3_Witness ==
    /\ lastOp.op = "get_evidence_for_row"
    /\ Len(facts) = 3
    /\ facts[3] = facts[1]
    /\ facts[2] # facts[1]
    /\ LET first == AllResults(<<facts[1]>>)
           second == AllResults(<<facts[2]>>)
       IN \E i \in 1..Len(first) : \E j \in 1..Len(second) :
             /\ first[i].chunk_id = second[j].chunk_id
             /\ first[i].distance # second[j].distance
    /\ Len(evidence) >= 3

----------------------------------------------------------------------------
(* safe_api_call_with_fallback: src/main4.py                               *)

MODEL_LIST ==
    <<"qwen/qwen3-32b", "llama-3.1-8b-instant", "openai/gpt-oss-120b",
      "llama-3.3-70b-versatile">>

\* for attempt in range(3)
Attempts == 3

\* What the chat model's message.content can be: a Python str whose text
\* json.loads rejects or parses to a value.  An object is given by its keys
\* and its 'prediction', 'rationale' and 'facts' entries (read only when the
\* key is there); an array and a string by whether "prediction" is among
\* the items / inside the text.
Absent == "<absent>"
None == [kind |-> "None"]
EmptyStr == [kind |-> "str", empty |-> TRUE]
Str(json) == [kind |-> "str", empty |-> FALSE, json |-> json]
JInvalid == [type |-> "invalid"]
JObject(keys, p, r, f) ==
    [type |-> "object", keys |-> keys, prediction |-> p, rationale |-> r, facts |-> f]
JArray(has) == [type |-> "array", has_prediction |-> has]
JString(has) == [type |-> "string", has_prediction |-> has]
JNumber == [type |-> "number"]
JNull == [type |-> "null"]

Contents ==
    {EmptyStr, Str(JInvalid),
     Str(JObject({"prediction", "rationale"}, 0, "conflict", <<>>)),
     Str(JObject({"prediction", "rationale"}, 1, "no conflict", <<>>)),
     Str(JObject({"prediction"}, 0, "", <<>>)),
     Str(JObject({"rationale"}, 0, "conflict", <<>>)),
     Str(JObject({"rationale"}, 0, "", <<>>)),
     Str(JObject({}, 0, "", <<>>)),
     Str(JObject({"facts"}, 0, "", <<>>)),
     Str(JObject({"facts"}, 0, "", <<2, 5>>)),
     Str(JArray(FALSE)), Str(JArray(TRUE)), Str(JString(FALSE)), Str(JString(TRUE)),
     Str(JNumber), Str(JNull)}

\* How one client.chat.completions.create call can end
Errors == {"RateLimitError", "APIError", "Exception"}
Outcomes == [error : Errors] \cup [content : Contents]

\* The call entered: first model, first attempt, nothing called yet
StartCall(json_mode) ==
    [status |-> "running", model |-> 1, attempt |-> 0, calls |-> 0,
     last |-> [model |-> Absent, outcome |-> Absent], ret |-> None,
     json_mode |-> json_mode]

\* The outer loop moves to the next model; after the last one the function
\* prints "All models failed" and returns None.
NextModel(a) ==
    IF a.model = Len(MODEL_LIST)
    THEN [a EXCEPT !.status = "returned", !.model = @ + 1, !.attempt = 0, !.ret = None]
    ELSE [a EXCEPT !.model = @ + 1, !.attempt = 0]

\* except APIError: sleep, then the next attempt of range(3) on this model
OnAPIError(a) ==
    IF a.attempt + 1 = Attempts THEN NextModel(a)
    ELSE [a EXCEPT !.attempt = @ + 1]

\* Deviation from the code: a rate limit goes to the next attempt on the
\* same model.
OnRateLimitErrorRetry(a) == OnAPIError(a)

\* except RateLimitError: break
OnRateLimitError(a) == NextModel(a)

\* except Exception: break
OnException(a) == NextModel(a)

\* return response.choices[0].message.content
OnResponse(a, content) == [a EXCEPT !.status = "returned", !.ret = content]

\* One pass through the try block: the call to MODEL_LIST[a.model] and
\* what its outcome makes the loops do.
ApiStep(a, outcome) ==
    LET called == [a EXCEPT !.calls = @ + 1,
                            !.last = [model |-> MODEL_LIST[a.model],
                                      outcome |-> IF "error" \in DOMAIN outcome
                                                  THEN outcome.error ELSE "response"]]
    IN IF "content" \in DOMAIN outcome THEN OnResponse(called, outcome.content)
       ELSE IF outcome.error = "RateLimitError" THEN OnRateLimitError(called)
       ELSE IF outcome.error = "APIError" THEN OnAPIError(called)
       ELSE OnException(called)

----------------------------------------------------------------------------
(* SpecApi: one call of safe_api_call_with_fallback; each step is one      *)
(* client.chat.completions.create call with any of its outcomes.           *)

InitApi ==
    /\ documents = <<>>
    /\ processed_chunks = <<>>
    /\ index = NoStore
    /\ metadata = <<>>
    /\ faissFile = NoFile
    /\ metaFile = NoFile
    /\ tieOrder = "low"
    /\ encoder = "line"
    /\ row = NoRow
    /\ facts = <<>>
    /\ evidence = <<>>
    /\ lastOp = Op("safe_api_call_with_fallback", "running")
    /\ hist = NoHist
    /\ api \in {StartCall(json_mode) : json_mode \in BOOLEAN}
    /\ storeDirs = <<>>
    /\ stores = <<>>
    /\ df = <<>>
    /\ main_results = <<>>
    /\ pc = [at |-> "idle"]

ApiFrame == UNCHANGED <<documents, processed_chunks, index, metadata, faissFile,
                        metaFile, tieOrder, encoder, row, facts, evidence, hist,
                        storeDirs, stores, df, main_results, pc>>

ApiCall ==
    /\ pc.at = "idle"
    /\ api.status = "running"
    /\ \E outcome \in Outcomes : api' = ApiStep(api, outcome)
    /\ lastOp' = Op("safe_api_call_with_fallback", api'.status)
    /\ ApiFrame

NextApi == ApiCall

SpecApi == InitApi /\ [][NextApi]_vars

\* Every create call returns or raises: the client gives up on a request
\* after its timeout, so a running call always takes its next step.
SpecApiFair == SpecApi /\ WF_vars(ApiCall)

----------------------------------------------------------------------------
(* load_stores, extract_facts, verify_consistency and main: src/main4.py   *)

\* safe_api_call_with_fallback run to its return: oracle[n] is the outcome
\* of the n-th create call.
RECURSIVE RunCall(_, _)
RunCall(a, oracle) ==
    IF a.status = "returned" THEN a
    ELSE RunCall(ApiStep(a, oracle[a.calls + 1]), oracle)

safe_api_call_with_fallback(json_mode, oracle) == RunCall(StartCall(json_mode), oracle)

STORE_DIR_MC == "./faiss_store_monte_cristo"
STORE_DIR_CASTAWAYS == "./faiss_store_castaways"
KEY_MC == "The Count of Monte Cristo"
KEY_CASTAWAYS == "In Search of the Castaways"

\* build_indices, book 2: the artifacts it leaves in STORE_DIR_castaways
build_indices_castaways(enc, all_docs) ==
    LET docs_cast == SelectSeq(all_docs,
                               LAMBDA d : SourceContains(FILE_CASTAWAYS, d.source))
    IN IF docs_cast = <<>> THEN [faissFile |-> NoFile, metaFile |-> NoFile]
       ELSE LET chunks_cast == chunk_documents(docs_cast)
                vectors_cast == embed_chunks(enc, chunks_cast)
                store_cast == add_vectors(NoStore, <<>>, vectors_cast,
                                          MetasOf(chunks_cast))
            IN save(store_cast.index, store_cast.metadata, NoFile, NoFile, 1)

\* The two store directories after build_indices: FaissVectorStore(dir)
\* creates the directory (os.makedirs) whenever the book has a document,
\* and save() writes the artifacts only when the index was built.
build_indices(enc, all_docs) ==
    LET mc == build_indices_mc(enc, all_docs)
        cast == build_indices_castaways(enc, all_docs)
        has(file) == \E i \in 1..Len(all_docs) : SourceContains(file, all_docs[i].source)
    IN [mc |-> [exists |-> has(FILE_MC), faissFile |-> mc.faissFile,
                metaFile |-> mc.metaFile],
        cast |-> [exists |-> has(FILE_CASTAWAYS), faissFile |-> cast.faissFile,
                  metaFile |-> cast.metaFile]]

\* load_stores: a store object for every directory that exists, whatever
\* its load() returns
LoadedStore(key, dir) ==
    LET loaded == load(NoStore, <<>>, dir.faissFile, dir.metaFile)
    IN [key |-> key, index |-> loaded.index, metadata |-> loaded.metadata]

load_stores(dirs) ==
    (IF dirs.mc.exists THEN <<LoadedStore(KEY_MC, dirs.mc)>> ELSE <<>>)
    \o (IF dirs.cast.exists THEN <<LoadedStore(KEY_CASTAWAYS, dirs.cast)>> ELSE <<>>)

\* row.get('book_name', '') of a row whose cell is empty: NaN, a float
NoBookName == "<NaN>"

\* key in book_name
KeyIn(key, book_name) == book_name = key

\* for key in stores: if key in book_name: store = stores[key]; break
RECURSIVE FindStore(_, _)
FindStore(ss, book_name) ==
    IF ss = <<>> THEN [found |-> FALSE]
    ELSE IF KeyIn(Head(ss).key, book_name)
         THEN [found |-> TRUE, store |-> Head(ss)]
         ELSE FindStore(Tail(ss), book_name)

\* 'if not response' / 'if output': None and the empty string are false
Falsy(s) == s = None \/ s = EmptyStr

\* extract_facts: the facts list, given what the model call returned
extract_facts(backstory, response) ==
    IF Falsy(response) THEN <<backstory>>
    ELSE IF response.json.type = "object" /\ "facts" \in response.json.keys
         THEN response.json.facts
         ELSE <<backstory>>

Dict(prediction, rationale) ==
    JObject({"prediction", "rationale"}, prediction, rationale, <<>>)

NoEvidenceFound == "No evidence found (Benefit of Doubt)"

\* "prediction" not in result, for the value json.loads returned
LacksPrediction(v) ==
    IF v.type = "object" THEN "prediction" \notin v.keys ELSE ~v.has_prediction

\* verify_consistency from the judge's output on: lines 219-228
JudgeResult(output) ==
    IF Falsy(output) THEN [out |-> "returned", result |-> Dict(1, "API Error")]
    ELSE LET v == output.json
         IN IF v.type = "invalid"
            THEN [out |-> "returned", result |-> Dict(1, "JSON Parse Error")]
            ELSE IF v.type \in {"number", "null"}
            THEN [out |-> "TypeError", result |-> v]
            ELSE IF ~LacksPrediction(v) THEN [out |-> "returned", result |-> v]
            ELSE IF v.type = "object"
            THEN [out |-> "returned",
                  result |-> [v EXCEPT !.keys = @ \cup {"prediction"},
                                       !.prediction = 1]]
            ELSE [out |-> "TypeError", result |-> v]

\* main, lines 267-276: the record appended for what verify_consistency returned
OutputRecord(story_id, output_dict) ==
    [id |-> story_id,
     prediction |-> IF "prediction" \in output_dict.keys
                    THEN output_dict.prediction ELSE 1,
     rationale |-> IF "rationale" \in output_dict.keys
                   THEN output_dict.rationale ELSE ""]

RETRIEVAL_STRATEGY == "STORY"

\* verify_consistency, lines 160-164: the facts searched with; response is
\* what extract_facts' model call returned (read with "FACTS" only)
FactsOf(strategy, backstory, response) ==
    IF strategy = "FACTS" THEN extract_facts(backstory, response)
    ELSE <<backstory>>

\* Deviation from the code: the judge is asked even with no evidence.
EvidenceMissingNever(evidence_items) == FALSE

\* if not evidence_items
EvidenceMissing(evidence_items) == evidence_items = <<>>

\* verify_consistency, lines 156-169: the facts and the evidence retrieved
RetrieveEvidence(r, store, strategy, tie, enc, response) ==
    LET backstory == clean_text(r.content)
        fs == FactsOf(strategy, backstory, response)
        found == get_evidence_for_row(r, store.index, store.metadata, tie, enc, fs)
    IN [out |-> found.out, facts |-> fs, evidence |-> found.evidence]

\* verify_consistency, lines 171-228: how it ends (returns, or the exception
\* that leaves it), the dict it returns, and the judge call it made
JudgeEvidence(got, judgeOracle) ==
    LET called == safe_api_call_with_fallback(TRUE, judgeOracle)
        judged == JudgeResult(called.ret)
    IN IF got.out # "returned"
       THEN [out |-> got.out, result |-> JNull, facts |-> got.facts,
             evidence |-> <<>>, judge |-> [status |-> "idle"]]
       ELSE IF EvidenceMissing(got.evidence)
       THEN [out |-> "returned", result |-> Dict(1, NoEvidenceFound),
             facts |-> got.facts, evidence |-> got.evidence,
             judge |-> [status |-> "idle"]]
       ELSE [out |-> judged.out, result |-> judged.result, facts |-> got.facts,
             evidence |-> got.evidence, judge |-> called]

\* verify_consistency(row, store)
verify_consistency(r, store, strategy, tie, enc, response, judgeOracle) ==
    JudgeEvidence(RetrieveEvidence(r, store, strategy, tie, enc, response), judgeOracle)

----------------------------------------------------------------------------
(* SpecMain: main() over a data directory indexed by build_indices and an  *)
(* input CSV; each step is one iteration of the loop over the rows, with   *)
(* any behaviour of the chat models.                                       *)

MaxRows == 2        \* rows of the input CSV

MaxCalls == Attempts * Len(MODEL_LIST)

\* The chat models' behaviour during one call: the first `fails` create
\* calls raise `error`, the following ones answer `content`
Oracle(fails, error, content) ==
    [n \in 1..MaxCalls |-> IF n <= fails THEN [error |-> error]
                           ELSE [content |-> content]]

\* the first model answers; the first model fails three times and the
\* second answers; every model fails
JudgeOracles ==
    {Oracle(0, "APIError", c) : c \in Contents}
    \cup {Oracle(Attempts, "APIError", c) :
             c \in {Str(JInvalid), Str(JObject({"prediction"}, 0, "", <<>>))}}
    \cup {Oracle(MaxCalls, e, EmptyStr) : e \in {"RateLimitError", "APIError"}}

\* What extract_facts' model call can return
ExtractResponses ==
    {None, Str(JInvalid), Str(JArray(FALSE)),
     Str(JObject({}, 0, "", <<>>)),
     Str(JObject({"facts"}, 0, "", <<>>)),
     Str(JObject({"facts"}, 0, "", <<2, 5>>))}

\* What the loader finds in the data directory: nothing; both books; one
\* book; one book whose file is empty (no chunk) and the other book
MainDataDirs ==
    {<<>>,
     <<Doc(FILE_MC, 3), Doc(FILE_CASTAWAYS, 2)>>,
     <<Doc(FILE_MC, 3)>>,
     <<Doc(FILE_MC, 0), Doc(FILE_CASTAWAYS, 2)>>}

BookNames == {KEY_MC, KEY_CASTAWAYS, "Les Miserables", NoBookName}

CsvRows == [book_name : BookNames, content : {2}, char : {NaN}, caption : {0}]

InitMain ==
    \E all_docs \in MainDataDirs :
       /\ documents = all_docs
       /\ processed_chunks = <<>>
       /\ index = NoStore
       /\ metadata = <<>>
       /\ faissFile = NoFile
       /\ metaFile = NoFile
       /\ tieOrder = "low"
       /\ encoder = "line"
       /\ row = NoRow
       /\ facts = <<>>
       /\ evidence = <<>>
       /\ lastOp = Op("build_indices", "returned")
       /\ hist = NoHist
       /\ api = [status |-> "idle"]
       /\ storeDirs = build_indices("line", all_docs)
       /\ stores = <<>>
       /\ df \in SeqsUpTo(CsvRows, MaxRows)
       /\ main_results = <<>>
       /\ pc \in {[at |-> "start", i |-> 0, strategy |-> s] :
                     s \in {RETRIEVAL_STRATEGY, "FACTS"}}

DiskFrame == UNCHANGED <<documents, processed_chunks, index, metadata, faissFile,
                         metaFile, tieOrder, encoder, hist, storeDirs, df>>

\* stores = load_stores(); if not stores: return
MainLoadStores ==
    /\ pc.at = "start"
    /\ stores' = load_stores(storeDirs)
    /\ pc' = IF stores' = <<>> THEN [pc EXCEPT !.at = "returned"]
             ELSE [pc EXCEPT !.at = "rows", !.i = 1]
    /\ lastOp' = Op("load_stores", "returned")
    /\ UNCHANGED <<row, facts, evidence, api, main_results>>
    /\ DiskFrame

\* row.get('book_name', '').strip() on an empty cell
MainBookNameError ==
    /\ pc.at = "rows" /\ pc.i <= Len(df)
    /\ df[pc.i].book_name = NoBookName
    /\ pc' = [pc EXCEPT !.at = "aborted"]
    /\ row' = df[pc.i]
    /\ lastOp' = Op("main", "AttributeError")
    /\ UNCHANGED <<facts, evidence, api, stores, main_results>>
    /\ DiskFrame

\* if not store: continue
MainSkip ==
    /\ pc.at = "rows" /\ pc.i <= Len(df)
    /\ df[pc.i].book_name # NoBookName
    /\ ~FindStore(stores, df[pc.i].book_name).found
    /\ pc' = [pc EXCEPT !.i = @ + 1]
    /\ row' = df[pc.i]
    /\ lastOp' = Op("main", "Skip")
    /\ UNCHANGED <<facts, evidence, api, stores, main_results>>
    /\ DiskFrame

\* output_dict = verify_consistency(row, store) and the record appended
MainVerify ==
    /\ pc.at = "rows" /\ pc.i <= Len(df)
    /\ df[pc.i].book_name # NoBookName
    /\ FindStore(stores, df[pc.i].book_name).found
    /\ \E response \in ExtractResponses :
          /\ pc.strategy = "FACTS" \/ response = None
          /\ \E judgeOracle \in JudgeOracles, got \in
                {RetrieveEvidence(df[pc.i], FindStore(stores, df[pc.i].book_name).store,
                                  pc.strategy, tieOrder, encoder, response)} :
             LET r == JudgeEvidence(got, judgeOracle)
                 raised == IF r.out # "returned" THEN r.out
                           ELSE IF r.result.type # "object" THEN "AttributeError"
                           ELSE "none"
             IN /\ r.judge.status = "idle" => judgeOracle = Oracle(0, "APIError", EmptyStr)
                /\ row' = df[pc.i]
                /\ facts' = r.facts
                /\ evidence' = r.evidence
                /\ api' = r.judge
                /\ IF raised # "none"
                   THEN /\ pc' = [pc EXCEPT !.at = "aborted"]
                        /\ lastOp' = Op("verify_consistency", raised)
                        /\ UNCHANGED main_results
                   ELSE /\ pc' = [pc EXCEPT !.i = @ + 1]
                        /\ lastOp' = Op("verify_consistency", "appended")
                        /\ main_results' = Append(main_results,
                                                  OutputRecord(pc.i, r.result))
    /\ UNCHANGED stores
    /\ DiskFrame

\* pd.DataFrame(results).to_csv(OUTPUT_CSV)
MainSave ==
    /\ pc.at = "rows" /\ pc.i > Len(df)
    /\ pc' = [pc EXCEPT !.at = "saved"]
    /\ lastOp' = Op("main", "saved")
    /\ UNCHANGED <<row, facts, evidence, api, stores, main_results>>
    /\ DiskFrame

NextMain ==
    \/ MainLoadStores
    \/ MainBookNameError
    \/ MainSkip
    \/ MainVerify
    \/ MainSave

SpecMain == InitMain /\ [][NextMain]_vars

----------------------------------------------------------------------------
(* C11 *)

\* the request the loop handled last went through verify_consistency
Verified == lastOp.op = "verify_consistency"

\* the store main picked for the request handled last
StoreOfRow == FindStore(stores, row.book_name).store

\* C11: a request whose evidence set is empty (no facts, or no search
\* returned anything) gets a record with prediction 1 and the "No evidence
\* found" rationale, and the judge was not called for it.
C11_NoEvidenceDefaultVerdict ==
    (Verified /\ evidence = <<>>) =>
       /\ lastOp.out = "appended"
       /\ main_results # <<>>
       /\ main_results[Len(main_results)] =
             [id |-> pc.i - 1, prediction |-> 1, rationale |-> NoEvidenceFound]
       /\ api.status = "idle"

\* Zero facts on a store that holds chunks, after a request that was judged.
C11_Witness ==
    /\ Verified
    /\ evidence = <<>>
    /\ facts = <<>>
    /\ StoreOfRow.index.ntotal > 0
    /\ Len(main_results) = 2
    /\ main_results[1].rationale # NoEvidenceFound

----------------------------------------------------------------------------
(* C12 *)

\* The judge gave no usable verdict: no response after every model failed,
\* text that is not JSON, JSON that is not an object, or an object without
\* a prediction.
NoVerdict(ret) ==
    \/ ret = None
    \/ ret = EmptyStr
    \/ /\ ret # EmptyStr
       /\ \/ ret.json.type # "object"
          \/ ret.json.type = "object" /\ "prediction" \notin ret.json.keys

\* C12: a request with non-empty evidence whose judge call gave no usable
\* verdict gets a record with prediction 1, and the loop goes on to the
\* next row.
C12_JudgeFailureNeverAborts ==
    (Verified /\ evidence # <<>> /\ api.status = "returned" /\ NoVerdict(api.ret)) =>
       /\ pc.at = "rows"
       /\ lastOp.out = "appended"
       /\ main_results # <<>>
       /\ main_results[Len(main_results)].id = pc.i - 1
       /\ main_results[Len(main_results)].prediction = 1

----------------------------------------------------------------------------
(* C13 *)

\* the book of the request has a built index: its store directory exists
\* and holds both artifacts
HasBuiltIndex(book_name) ==
    \E dir \in {storeDirs.mc, storeDirs.cast} :
       /\ dir = IF book_name = KEY_MC THEN storeDirs.mc ELSE storeDirs.cast
       /\ book_name \in {KEY_MC, KEY_CASTAWAYS}
       /\ dir.exists /\ dir.faissFile.exists /\ dir.metaFile.exists

\* the output records of the request in row j
RecordsOfRow(j) == {k \in 1..Len(main_results) : main_results[k].id = j}

----------------------------------------------------------------------------
(* C14 *)

\* The record appended last carries a default verdict: there was no
\* evidence, or the judge call returned nothing, or text json.loads
\* rejects, or an object without a prediction.
DefaultVerdict ==
    \/ evidence = <<>>
    \/ /\ api.status = "returned"
       /\ \/ Falsy(api.ret)
          \/ /\ ~Falsy(api.ret)
             /\ \/ api.ret.json.type = "invalid"
                \/ /\ api.ret.json.type = "object"
                   /\ "prediction" \notin api.ret.json.keys

\* C14: a record that carries a default verdict has prediction 1 and a
\* non-empty rationale.
C14_DefaultVerdictHasRationale ==
    (Verified /\ lastOp.out = "appended" /\ DefaultVerdict) =>
       /\ main_results[Len(main_results)].prediction = 1
       /\ main_results[Len(main_results)].rationale # ""

----------------------------------------------------------------------------
(* C15 *)

\* the chunks the per-fact searches returned, each named by the pair
\* (source, chunk_id)
RetrievedChunks ==
    LET all == AllResults(facts)
    IN {<<all[i].source, all[i].chunk_id>> : i \in 1..Len(all)}

\* C15: get_evidence_for_row merges only results that denote the same chunk:
\* the evidence has one item for every retrieved (source, chunk_id) pair, up
\* to the cap of 10, and when the cap drops nothing every retrieved chunk is
\* in the evidence.
C15_DedupOnlySameChunk ==
    lastOp.op = "get_evidence_for_row" =>
       /\ Len(evidence) = Min(EvidenceCap, Cardinality(RetrievedChunks))
       /\ Cardinality(RetrievedChunks) <= EvidenceCap =>
             \A c \in RetrievedChunks : \E i \in 1..Len(evidence) :
                <<evidence[i].source, evidence[i].chunk_id>> = c

----------------------------------------------------------------------------
(* C16 *)

\* One create call, seen from outside: it goes to the model whose turn it
\* is, and what follows depends on its outcome alone.
CallInOrder ==
    /\ api.status = "running"
    /\ api.model \in 1..Len(MODEL_LIST)
    /\ api'.calls = api.calls + 1
    /\ api'.last.model = MODEL_LIST[api.model]
    /\ api'.model \in {api.model, api.model + 1}
    /\ api'.last.outcome = "response" =>
          /\ api'.status = "returned"
          /\ api'.ret \in Contents
          /\ api'.model = api.model
    /\ api'.last.outcome \in {"RateLimitError", "Exception"} =>
          /\ api'.model = api.model + 1
          /\ api'.attempt = 0
    /\ api'.last.outcome = "APIError" =>
          IF api.attempt + 1 < Attempts
          THEN api'.model = api.model /\ api'.attempt = api.attempt + 1
          ELSE api'.model = api.model + 1 /\ api'.attempt = 0
    /\ api'.model = api.model => api'.last.outcome \in {"APIError", "response"}
    /\ api'.status = "returned" <=>
          (api'.last.outcome = "response" \/ api'.model = Len(MODEL_LIST) + 1)
    /\ (api'.status = "returned" /\ api'.ret = None) <=>
          api'.model = Len(MODEL_LIST) + 1

\* C16: safe_api_call_with_fallback returns in every run; it never makes
\* more than 3 calls to one model nor more than 3 * len(MODEL_LIST) calls;
\* every call goes to the models in MODEL_LIST order, moving on at once on a
\* rate limit or an unexpected error and retrying the same model only on an
\* API error; the first response ends the call with its content; None is
\* returned only when the last model has been abandoned; and nothing is
\* called after the return.
C16_FallbackTerminatesInOrder ==
    /\ <>(api.status = "returned")
    /\ [](api.status = "running" => api.attempt < Attempts)
    /\ [](api.calls <= Attempts * Len(MODEL_LIST))
    /\ [][CallInOrder]_api

\* None returned after every model used up its three attempts.
C16_Witness ==
    /\ api.status = "returned"
    /\ api.ret = None
    /\ api.model = Len(MODEL_LIST) + 1
    /\ api.calls = Attempts * Len(MODEL_LIST)

====
